---- MODULE Spec2Model ----
(***************************************************************************)
(* Model of the RAG backend: the text chunker (utils/chunker.py), the      *)
(* Qdrant vector store wrapper (core/vectorstore.py) and the query         *)
(* orchestrator (core/rag_pipeline.py with core/llm_groq.py).              *)
(***************************************************************************)
EXTENDS Integers, Sequences, FiniteSets, TLC

\* ------------------------------------------------------------------------
\* Bounds of the model
\* ------------------------------------------------------------------------
MaxTextLen == 8
MaxIter == 14
MaxLoopTextLen == 4

\* characters the input texts are drawn from: a letter, a full stop, a blank
Alphabet == {"a", ".", " "}

\* chunker configurations <<chunk_size, chunk_overlap>>, overlap < size
Configs == {<<3, 0>>, <<4, 1>>, <<3, 2>>, <<7, 3>>}

VARIABLES
    text,           \* chunk_text: the input text, a sequence of characters
    chunk_size,     \* TextChunker.chunk_size
    chunk_overlap,  \* TextChunker.chunk_overlap
    start,          \* chunk_text: local start
    end,            \* chunk_text: local end
    chunks,         \* chunk_text: local chunks (the stripped slices kept)
    slices,         \* history: <<lo, hi>> text positions of each slice taken
    iters,          \* history: loop iterations run so far (saturates)
    cpc             \* chunk_text: "call" | "loop" | "advance" | "returned"

VARIABLES
    RAG_TOP_K,      \* settings.RAG_TOP_K
    RAG_MIN_SCORE,  \* settings.RAG_MIN_SCORE, in hundredths
    GROQ_API_KEY,   \* settings.GROQ_API_KEY, "" when not configured
    index,          \* the collection: entries in point-id order
    uuid_count,     \* number of uuid4() values drawn so far
    backend_strict, \* whether the backend applies score_threshold itself
    searchLog,      \* history: the search calls made, with what they returned
    last_op,        \* history: the last add_documents / delete_document call
    ops             \* history: number of store calls made

VARIABLES
    groq_client,        \* GroqLLM._client
    groq_async_client,  \* GroqLLM._async_client
    rpc,                \* rag_query: "start" | "generate" | "returned" | "raised"
    search_results,     \* rag_query: local search_results
    sources,            \* rag_query: local sources
    llm_result,         \* history: how chat_completion_async ended, and why
    outcome,            \* rag_query: the dictionary returned
    search_calls,       \* history: vector_store.search calls of this query
    llm_calls,          \* history: chat_completion_async calls of this query
    queries,            \* history: rag_query calls started
    search_fault        \* history: how vector_store.search failed in this query

VARIABLES
    ctor_call       \* history: the TextChunker(...) call and how it ended

VARIABLES
    hpc,            \* the endpoint handler: "idle" | "received" | "chunking" |
                    \*   "querying" | "responded"
    upload,         \* embed_document: the uploaded file
    query,          \* query_rag: request.query, a sequence of characters
    http_status,    \* the status of the response, 0 before there is one
    add_calls       \* history: add_documents calls the handler made

VARIABLES
    dpc,            \* delete_document: "idle" | "scanned" | "returned" | "raised"
    scroll_result,  \* delete_document: the page client.scroll returned
    collection,     \* the backend's collection of the configured name
    create_calls    \* history: create_collection calls made

chunkVars == <<text, chunk_size, chunk_overlap, start, end, chunks, slices, iters, cpc>>
settingsVars == <<RAG_TOP_K, RAG_MIN_SCORE, GROQ_API_KEY>>
storeVars == <<index, uuid_count, backend_strict, searchLog, last_op, ops>>
groqVars == <<groq_client, groq_async_client>>
ragVars == <<rpc, search_results, sources, llm_result, outcome, search_calls,
             llm_calls, queries, search_fault>>
ctorVars == <<ctor_call>>
apiVars == <<hpc, upload, query, http_status, add_calls>>
backendVars == <<dpc, scroll_result, collection, create_calls>>
vars == <<chunkVars, settingsVars, storeVars, groqVars, ragVars, ctorVars, apiVars,
          backendVars>>

\* Python's None, and a present value, for the optional values of the model
None == <<>>
Some(v) == <<v>>
Val(x) == x[1]

\* llm_result before chat_completion_async has been called
NoCall == [kind |-> "none", cause |-> "none"]

\* ------------------------------------------------------------------------
\* Settings (core/config.py) and the resting state of each component
\* ------------------------------------------------------------------------
DefaultTopK == 4
DefaultMinScore == 20

SettingsDefault ==
    /\ RAG_TOP_K = DefaultTopK
    /\ RAG_MIN_SCORE = DefaultMinScore
    /\ GROQ_API_KEY = "key"

ChunkIdle ==
    /\ text = <<>> /\ chunk_size = 1 /\ chunk_overlap = 0 /\ start = 0 /\ end = 0
    /\ chunks = <<>> /\ slices = <<>> /\ iters = 0 /\ cpc = "returned"

NoOp == [op |-> "none", doc_id |-> None, raised |-> FALSE, ids |-> <<>>,
         texts |-> <<>>, metadatas |-> None, deletes |-> 0, fault |-> "none"]

StoreIdle ==
    /\ index = <<>> /\ uuid_count = 0 /\ backend_strict = TRUE /\ searchLog = <<>>
    /\ last_op = NoOp /\ ops = 0

GroqIdle == groq_client = "None" /\ groq_async_client = "None"

RagIdle ==
    /\ rpc = "returned" /\ search_results = None /\ sources = <<>>
    /\ llm_result = NoCall /\ outcome = None /\ search_calls = 0
    /\ llm_calls = 0 /\ queries = 0 /\ search_fault = "none"

\* chunker.py line 93: text_chunker = TextChunker(), both arguments None
DefaultCtorCall == [chunk_size |-> None, chunk_overlap |-> None, raised |-> FALSE]
CtorIdle == ctor_call = DefaultCtorCall

NoUpload == [ext |-> "none", extracted |-> FALSE, doc_id |-> None]
ApiIdle ==
    /\ hpc = "idle" /\ upload = NoUpload /\ query = <<>> /\ http_status = 0
    /\ add_calls = 0

\* embeddings_generator.dimension
EmbeddingDim == 384

NoCollection == [exists |-> FALSE, size |-> 0, distance |-> "none"]
CosineCollection == [exists |-> TRUE, size |-> EmbeddingDim, distance |-> "Cosine"]

\* vectorstore.py line 260: vector_store = VectorStore() has run
BackendIdle ==
    /\ dpc = "idle" /\ scroll_result = <<>> /\ collection = CosineCollection
    /\ create_calls = 0

RECURSIVE SeqsUpTo(_, _)
SeqsUpTo(S, n) ==
    IF n = 0 THEN {<<>>}
    ELSE LET shorter == SeqsUpTo(S, n - 1)
         IN shorter \cup {Append(t, c) : t \in {u \in shorter : Len(u) = n - 1}, c \in S}

\* ------------------------------------------------------------------------
\* Python str primitives used by chunk_text
\* ------------------------------------------------------------------------
Min(a, b) == IF a <= b THEN a ELSE b
Max(a, b) == IF a >= b THEN a ELSE b

\* a slice index as Python normalises it: negative counts from the end,
\* then clamped to 0..len
PyIdx(i, len) == IF i < 0 THEN Max(len + i, 0) ELSE Min(i, len)

\* s[i:j]
PySlice(s, i, j) ==
    LET lo == PyIdx(i, Len(s))
        hi == PyIdx(j, Len(s))
    IN IF lo < hi THEN SubSeq(s, lo + 1, hi) ELSE <<>>

\* s.rfind(sub, i, j): highest 0-based p with s[p:p+len(sub)] == sub lying
\* wholly inside the normalised window, -1 if there is none
PyRFind(s, sub, i, j) ==
    LET lo == PyIdx(i, Len(s))
        hi == PyIdx(j, Len(s))
        hits == {p \in lo..(hi - Len(sub)) :
                    \A k \in 1..Len(sub) : s[p + k] = sub[k]}
    IN IF hits = {} THEN -1
       ELSE CHOOSE p \in hits : \A q \in hits : q <= p

IsSpace(c) == c \in {" ", "\n"}

\* a slice kept as it was cut
PyStripNothing(s) == s

\* s.strip()
PyStrip(s) ==
    LET keep == {p \in 1..Len(s) : ~IsSpace(s[p])}
    IN IF keep = {} THEN <<>>
       ELSE LET first == CHOOSE p \in keep : \A q \in keep : p <= q
                last == CHOOSE p \in keep : \A q \in keep : q <= p
            IN SubSeq(s, first, last)

\* the boundary markers in the order chunk_text tries them
break_chars == << <<".", " ">>, <<".", "\n">>, <<"!", " ">>, <<"!", "\n">>,
                 <<"?", " ">>, <<"?", "\n">>, <<"\n", "\n">> >>

\* end of the chunk starting at st: the hard cut st + chunk_size, moved to
\* just after the last occurrence of the first marker found in the window
\* when the hard cut lies before the end of the text
ChunkEnd(s, st, size) ==
    LET cut == st + size
        found == {m \in 1..Len(break_chars) :
                     PyRFind(s, break_chars[m], st, cut) # -1}
    IN IF cut < Len(s) /\ found # {}
       THEN LET m == CHOOSE x \in found : \A y \in found : x <= y
            IN PyRFind(s, break_chars[m], st, cut) + Len(break_chars[m])
       ELSE cut

\* ------------------------------------------------------------------------
\* TextChunker.chunk_text
\* ------------------------------------------------------------------------

Texts == SeqsUpTo(Alphabet, MaxTextLen)

ChunkInit ==
    /\ text \in Texts
    /\ \E cfg \in Configs : chunk_size = cfg[1] /\ chunk_overlap = cfg[2]
    /\ start = 0
    /\ end = 0
    /\ chunks = <<>>
    /\ slices = <<>>
    /\ iters = 0
    /\ cpc = "call"
    /\ SettingsDefault /\ StoreIdle /\ GroqIdle /\ RagIdle
    /\ CtorIdle /\ ApiIdle
    /\ BackendIdle

\* lines 39-48: the empty / whitespace-only guard, then start = 0
ChunkTextEnter ==
    /\ cpc = "call"
    /\ IF Len(text) = 0 \/ PyStrip(text) = <<>>
       THEN cpc' = "returned"
       ELSE cpc' = "loop"
    /\ UNCHANGED <<text, chunk_size, chunk_overlap, start, end, chunks, slices, iters>>
    /\ UNCHANGED <<settingsVars, storeVars, groqVars, ragVars>>
    /\ UNCHANGED <<ctorVars, apiVars>>
    /\ UNCHANGED backendVars

\* lines 48-64: the loop test, the end of the chunk, the slice and its append
ChunkTextSlice ==
    /\ cpc = "loop"
    /\ start < Len(text)
    /\ LET stop == ChunkEnd(text, start, chunk_size)
           chunk == PyStrip(PySlice(text, start, stop))
           lo == PyIdx(start, Len(text))
           hi == PyIdx(stop, Len(text))
       IN /\ end' = stop
          /\ IF iters < MaxIter
             THEN /\ chunks' = IF chunk # <<>> THEN Append(chunks, chunk) ELSE chunks
                  /\ slices' = Append(slices, <<lo, hi>>)
                  /\ iters' = iters + 1
             ELSE UNCHANGED <<chunks, slices, iters>>
    /\ cpc' = "advance"
    /\ UNCHANGED <<text, chunk_size, chunk_overlap, start>>
    /\ UNCHANGED <<settingsVars, storeVars, groqVars, ragVars>>
    /\ UNCHANGED <<ctorVars, apiVars>>
    /\ UNCHANGED backendVars

\* the start of the next chunk (line 67)
NextStart(stop, overlap) == stop - overlap

\* lines 66-69: the move of start, then the break or the next loop test
ChunkTextAdvance ==
    /\ cpc = "advance"
    /\ start' = NextStart(end, chunk_overlap)
    /\ cpc' = IF NextStart(end, chunk_overlap) >= Len(text) THEN "returned" ELSE "loop"
    /\ UNCHANGED <<text, chunk_size, chunk_overlap, end, chunks, slices, iters>>
    /\ UNCHANGED <<settingsVars, storeVars, groqVars, ragVars>>
    /\ UNCHANGED <<ctorVars, apiVars>>
    /\ UNCHANGED backendVars

ChunkNext == ChunkTextEnter \/ ChunkTextSlice \/ ChunkTextAdvance

ChunkSpec == ChunkInit /\ [][ChunkNext]_vars

\* the same machine on the short texts, with the loop scheduled fairly
ChunkLoopInit == ChunkInit /\ Len(text) <= MaxLoopTextLen
ChunkFairSpec == ChunkLoopInit /\ [][ChunkNext]_vars /\ WF_vars(ChunkNext)


\* ------------------------------------------------------------------------
\* The vector backend (Qdrant), seen through the calls the wrapper makes
\* ------------------------------------------------------------------------
\* an entry is [id, payload, score]: payload has the keys text and doc_id,
\* either of which may be Absent; score is the cosine similarity (in
\* hundredths) of the entry's vector to the query being asked, None for a
\* point the backend returns without a score attribute
Absent == "<absent>"

RankKey(p) == IF p.score = None THEN -1000 ELSE Val(p.score)

\* points by decreasing score, equal scores by increasing id
RECURSIVE Ranked(_)
Ranked(ps) ==
    IF ps = <<>> THEN <<>>
    ELSE LET best == CHOOSE i \in 1..Len(ps) :
                        \A j \in 1..Len(ps) :
                            \/ RankKey(ps[j]) < RankKey(ps[i])
                            \/ (RankKey(ps[j]) = RankKey(ps[i]) /\ ps[i].id <= ps[j].id)
             rest == [k \in 1..(Len(ps) - 1) |-> IF k < best THEN ps[k] ELSE ps[k + 1]]
         IN <<ps[best]>> \o Ranked(rest)

\* client.query_points(limit, score_threshold): the nearest `limit` points;
\* a strict backend drops the points scoring below the threshold first, an
\* advisory one ignores the threshold
QueryPoints(limit, score_threshold) ==
    LET ranked == Ranked(index)
        passing == IF backend_strict
                   THEN SelectSeq(ranked, LAMBDA p : p.score # None /\ Val(p.score) >= score_threshold)
                   ELSE ranked
    IN SubSeq(passing, 1, Min(Max(limit, 0), Len(passing)))

\* ------------------------------------------------------------------------
\* VectorStore.search
\* ------------------------------------------------------------------------
\* `x or default`: None and 0 are both falsy
Falsy(x) == x = None \/ x = Some(0)
OrDefault(x, default) == IF Falsy(x) THEN default ELSE Val(x)

\* line 140
EffectiveTopK(top_k) == OrDefault(top_k, RAG_TOP_K)
\* line 141
EffectiveMinScore(min_score) == OrDefault(min_score, RAG_MIN_SCORE)

\* line 185: point.score if hasattr(point, 'score') else 0.0
PointScore(p) == IF p.score = None THEN 0 ELSE Val(p.score)

\* line 187: the client-side threshold test
KeepPoint(score, min_score) == score >= min_score

\* lines 191-196
FormatPoint(p) ==
    [text |-> IF p.payload.text = Absent THEN "" ELSE p.payload.text,
     metadata |-> [doc_id |-> p.payload.doc_id],
     id |-> ToString(p.id),
     score |-> PointScore(p)]

\* each kept point put in front of the results collected so far
FormatResultsPrepend(points, min_score) ==
    LET kept == SelectSeq(points, LAMBDA p : KeepPoint(PointScore(p), min_score))
    IN [k \in 1..Len(kept) |-> FormatPoint(kept[Len(kept) + 1 - k])]

\* lines 181-199
FormatResults(points, min_score) ==
    LET kept == SelectSeq(points, LAMBDA p : KeepPoint(PointScore(p), min_score))
    IN [k \in 1..Len(kept) |-> FormatPoint(kept[k])]

\* lines 139-199, when neither the embedding nor the backend call fails
Search(top_k, min_score) ==
    FormatResults(QueryPoints(EffectiveTopK(top_k), EffectiveMinScore(min_score)),
                  EffectiveMinScore(min_score))

\* what can fail inside search: embed_query (line 144), query_points (163)
SearchFaults == {"none", "embed", "backend"}


\* indexes of at most n entries, ids 1..n in decreasing order of score
MkEntry(i, doc, sc) ==
    [id |-> i, payload |-> [text |-> "chunk", doc_id |-> doc], score |-> sc]

IndexesOf(docs, scores, n) ==
    {ix \in UNION {[1..k -> [doc : docs, score : scores]] : k \in 0..n} :
        \A i \in 1..(Len(ix) - 1) :
            RankKey(ix[i + 1]) <= RankKey(ix[i])}

BuildIndex(ix) == [i \in 1..Len(ix) |-> MkEntry(i, ix[i].doc, ix[i].score)]

MaxSearchPoints == 2
MaxSearches == 2
SearchScores == {Some(-30), Some(15), Some(50), None}
MinScoreSettings == {DefaultMinScore, -50}
TopKArgs == {None, Some(0), Some(1)}
MinScoreArgs == {None, Some(0), Some(10), Some(50)}

SearchInit ==
    /\ \E ix \in IndexesOf({"d1"}, SearchScores, MaxSearchPoints) :
          /\ index = BuildIndex(ix)
          /\ uuid_count = Len(ix)
    /\ backend_strict \in BOOLEAN
    /\ searchLog = <<>>
    /\ last_op = NoOp /\ ops = 0
    /\ RAG_TOP_K = DefaultTopK
    /\ RAG_MIN_SCORE \in MinScoreSettings
    /\ GROQ_API_KEY = "key"
    /\ ChunkIdle /\ GroqIdle /\ RagIdle
    /\ CtorIdle /\ ApiIdle
    /\ BackendIdle

\* a caller runs vector_store.search(query, top_k, min_score) to its return
SearchReturns ==
    /\ Len(searchLog) < MaxSearches
    /\ \E top_k \in TopKArgs, min_score \in MinScoreArgs :
          searchLog' = Append(searchLog,
                              [top_k |-> top_k, min_score |-> min_score,
                               raised |-> FALSE,
                               results |-> Search(top_k, min_score)])
    /\ UNCHANGED <<index, uuid_count, backend_strict, last_op, ops>>
    /\ UNCHANGED <<chunkVars, settingsVars, groqVars, ragVars>>
    /\ UNCHANGED <<ctorVars, apiVars>>
    /\ UNCHANGED backendVars

\* ... or to the raise of lines 176-178 / 201-203
SearchRaises ==
    /\ Len(searchLog) < MaxSearches
    /\ \E top_k \in TopKArgs, min_score \in MinScoreArgs :
          searchLog' = Append(searchLog,
                              [top_k |-> top_k, min_score |-> min_score,
                               raised |-> TRUE, results |-> <<>>])
    /\ UNCHANGED <<index, uuid_count, backend_strict, last_op, ops>>
    /\ UNCHANGED <<chunkVars, settingsVars, groqVars, ragVars>>
    /\ UNCHANGED <<ctorVars, apiVars>>
    /\ UNCHANGED backendVars

SearchNext == SearchReturns \/ SearchRaises

SearchSpec == SearchInit /\ [][SearchNext]_vars

\* C3: search never returns a result scoring strictly below the min_score
\* its caller passed
SearchRespectsMinScore ==
    \A c \in 1..Len(searchLog) :
        searchLog[c].min_score # None =>
            \A r \in 1..Len(searchLog[c].results) :
                searchLog[c].results[r].score >= Val(searchLog[c].min_score)

\* C4: of two searches with the same top_k on the same index, the one given
\* the higher min_score does not return more results
SearchMonotoneInMinScore ==
    \A a, b \in 1..Len(searchLog) :
        (/\ ~searchLog[a].raised /\ ~searchLog[b].raised
         /\ searchLog[a].top_k = searchLog[b].top_k
         /\ searchLog[a].min_score # None /\ searchLog[b].min_score # None
         /\ Val(searchLog[a].min_score) <= Val(searchLog[b].min_score))
        => Len(searchLog[b].results) <= Len(searchLog[a].results)

\* the points the backend returned to the c-th search
BackendPoints(c) ==
    QueryPoints(EffectiveTopK(searchLog[c].top_k), EffectiveMinScore(searchLog[c].min_score))

\* C22: when the backend returned its points in non-increasing order of
\* score, the results of search are in non-increasing order of score, and
\* they are the kept points in the order the backend gave them
SearchKeepsRanking ==
    \A c \in 1..Len(searchLog) :
        LET pts == BackendPoints(c)
            res == searchLog[c].results
        IN (/\ ~searchLog[c].raised
            /\ \A i, j \in 1..Len(pts) : i < j => PointScore(pts[i]) >= PointScore(pts[j]))
           => /\ \A i, j \in 1..Len(res) : i < j => res[i].score >= res[j].score
              /\ \A i, j \in 1..Len(res) : i < j =>
                    \E a, b \in 1..Len(pts) :
                       /\ a < b
                       /\ ToString(pts[a].id) = res[i].id
                       /\ ToString(pts[b].id) = res[j].id

\* a search returned two results of different scores
SearchKeepsRankingWitness ==
    \E c \in 1..Len(searchLog) :
        /\ ~searchLog[c].raised
        /\ Len(searchLog[c].results) = 2
        /\ searchLog[c].results[1].score > searchLog[c].results[2].score

\* C23: a search given top_k >= 0 returns at most top_k results
SearchAtMostTopK ==
    \A c \in 1..Len(searchLog) :
        (searchLog[c].top_k # None /\ Val(searchLog[c].top_k) >= 0) =>
            Len(searchLog[c].results) <= Val(searchLog[c].top_k)

\* the same for the top_k values other than 0
SearchAtMostPositiveTopK ==
    \A c \in 1..Len(searchLog) :
        (searchLog[c].top_k # None /\ Val(searchLog[c].top_k) > 0) =>
            Len(searchLog[c].results) <= Val(searchLog[c].top_k)


\* ------------------------------------------------------------------------
\* GroqLLM (core/llm_groq.py)
\* ------------------------------------------------------------------------
\* what constructing the clients can do: succeed, or raise at Groq(...) or
\* at AsyncGroq(...)
CtorFaults == {"none", "sync", "async"}

\* how the provider answers one chat.completions.create call
ProviderOutcomes == {"ok", "PermissionDeniedError", "AuthenticationError",
                     "APIError", "OtherError"}

\* lines 26-51: the exception raised ("none" when it returns) and the two
\* client fields afterwards
EnsureClientInitialized(ctor) ==
    IF groq_client # "None"
    THEN [raised |-> "none", client |-> groq_client, async |-> groq_async_client]
    ELSE IF GROQ_API_KEY = ""
    THEN [raised |-> "ValueError", client |-> groq_client, async |-> groq_async_client]
    ELSE IF ctor = "sync"
    THEN [raised |-> "Exception", client |-> groq_client, async |-> groq_async_client]
    ELSE IF ctor = "async"
    THEN [raised |-> "Exception", client |-> "Groq", async |-> groq_async_client]
    ELSE [raised |-> "none", client |-> "Groq", async |-> "AsyncGroq"]

\* the except clauses with APIError tried first: it is the base class of the
\* two authentication errors and would catch them
MapProviderErrorApiFirst(e) ==
    CASE e \in {"PermissionDeniedError", "AuthenticationError", "APIError"} -> "RuntimeError"
      [] OTHER -> "Exception"

\* the except clauses without the APIError one
MapProviderErrorNoApi(e) ==
    CASE e \in {"PermissionDeniedError", "AuthenticationError"} -> "ValueError"
      [] OTHER -> "Exception"

\* lines 149-163: the except clauses of chat_completion_async
MapProviderError(e) ==
    CASE e = "PermissionDeniedError" -> "ValueError"
      [] e = "AuthenticationError" -> "ValueError"
      [] e = "APIError" -> "RuntimeError"
      [] OTHER -> "Exception"

\* lines 134-163: how the call ends ("ok", or the exception class that
\* leaves it), what caused that, and the client fields afterwards
ChatCompletionAsync(provider, ctor) ==
    LET init == EnsureClientInitialized(ctor)
        kind == IF init.raised # "none" THEN init.raised
                ELSE IF init.async = "None" THEN "Exception"
                ELSE IF provider = "ok" THEN "ok"
                ELSE MapProviderError(provider)
        cause == IF init.raised = "ValueError" THEN "missing_key"
                 ELSE IF init.raised # "none" THEN "constructor"
                 ELSE IF init.async = "None" THEN "no_async_client"
                 ELSE provider
    IN [kind |-> kind, cause |-> cause, client |-> init.client, async |-> init.async]

\* ------------------------------------------------------------------------
\* RAGPipeline.rag_query (core/rag_pipeline.py)
\* ------------------------------------------------------------------------
MaxPoints == 3
MaxQueries == 2
RagScores == {Some(-30), Some(15), Some(50), Some(100)}
RagDocs == {"d1", "d2", Absent}

\* line 73: result["metadata"].get("doc_id", result["id"])
SourceOf(result) ==
    IF result.metadata.doc_id = Absent THEN result.id ELSE result.metadata.doc_id

\* lines 69-75 without the `not in sources` test of line 74
RECURSIVE CollectSourcesNoDedup(_, _)
CollectSourcesNoDedup(results, acc) ==
    IF results = <<>> THEN acc
    ELSE CollectSourcesNoDedup(Tail(results), Append(acc, SourceOf(Head(results))))

\* lines 69-75: the first-seen, de-duplicated sources
RECURSIVE CollectSources(_, _)
CollectSources(results, acc) ==
    IF results = <<>> THEN acc
    ELSE LET doc_id == SourceOf(Head(results))
         IN CollectSources(Tail(results),
                           IF \E k \in 1..Len(acc) : acc[k] = doc_id
                           THEN acc ELSE Append(acc, doc_id))

RECURSIVE SumScores(_)
SumScores(results) ==
    IF results = <<>> THEN 0 ELSE Head(results).score + SumScores(Tail(results))

ConfidenceCap == 95

\* round(x, 2) of x = total / n hundredths: the nearest hundredth; an exact
\* half lands on either neighbour, as the binary float happens to fall
RoundHundredths(total, n) ==
    LET q == (2 * total + n) \div (2 * n)
    IN IF (2 * total + n) % (2 * n) = 0 THEN {q - 1, q} ELSE {q}

\* lines 118-126: min(avg_score, 0.95), rounded
Confidences(results) ==
    LET total == SumScores(results)
        n == Len(results)
    IN IF total >= ConfidenceCap * n THEN {ConfidenceCap}
       ELSE RoundHundredths(total, n)

\* the test of line 59 written as `is None`, which no list satisfies
NoSearchResultsNever(results) == FALSE

\* line 59: if not search_results
NoSearchResults(results) == results = <<>>

\* lines 61-65
NoResultsOutcome == [answer |-> "not_found", sources |-> <<>>, confidence |-> 0]
\* lines 103-107
ConfigIssueOutcome(srcs) == [answer |-> "config_issue", sources |-> srcs, confidence |-> 0]
\* lines 111-115
UnavailableOutcome(srcs) == [answer |-> "service_unavailable", sources |-> srcs, confidence |-> 0]
\* lines 123-127
SucceededOutcome(srcs, conf) == [answer |-> "generated", sources |-> srcs, confidence |-> conf]

RagInit ==
    /\ \E ix \in IndexesOf(RagDocs, RagScores, MaxPoints) :
          /\ index = BuildIndex(ix)
          /\ uuid_count = Len(ix)
    /\ backend_strict \in BOOLEAN
    /\ searchLog = <<>>
    /\ last_op = NoOp /\ ops = 0
    /\ RAG_TOP_K = DefaultTopK
    /\ RAG_MIN_SCORE \in MinScoreSettings
    /\ GROQ_API_KEY \in {"", "key"}
    /\ GroqIdle
    /\ rpc = "start" /\ search_results = None /\ sources = <<>>
    /\ llm_result = NoCall /\ outcome = None /\ search_calls = 0
    /\ llm_calls = 0 /\ queries = 1 /\ search_fault = "none"
    /\ ChunkIdle /\ CtorIdle /\ ApiIdle
    /\ BackendIdle

\* lines 49-77: Retrieve, then NoResults or BuildContext
RagRetrieve ==
    /\ rpc = "start"
    /\ search_calls' = search_calls + 1
    /\ \E fault \in SearchFaults :
          /\ search_fault' = fault
          /\ IF fault # "none"
             THEN /\ rpc' = "raised"
                  /\ UNCHANGED <<search_results, sources, outcome>>
             ELSE LET results == Search(Some(RAG_TOP_K), Some(RAG_MIN_SCORE))
                  IN /\ search_results' = Some(results)
                     /\ IF NoSearchResults(results)
                        THEN /\ rpc' = "returned"
                             /\ outcome' = Some(NoResultsOutcome)
                             /\ UNCHANGED sources
                        ELSE /\ rpc' = "generate"
                             /\ sources' = CollectSources(results, <<>>)
                             /\ UNCHANGED outcome
    /\ UNCHANGED <<llm_result, llm_calls, queries>>
    /\ UNCHANGED <<chunkVars, settingsVars, storeVars, groqVars>>
    /\ UNCHANGED <<ctorVars, apiVars>>
    /\ UNCHANGED backendVars

\* a failed generation call answered by calling the provider again
GenerationExitRetry(kind) ==
    IF kind \in {"ok", "ValueError"} THEN "returned"
    ELSE IF kind = "RuntimeError" THEN "generate" ELSE "raised"

\* an except clause that answers every failure of the provider
GenerationExitCatchAll(kind) == "returned"

\* lines 95-131: how rag_query leaves the generation step: the two except
\* clauses and the success path return, anything else is re-raised
GenerationExit(kind) ==
    IF kind \in {"ok", "ValueError", "RuntimeError"} THEN "returned" ELSE "raised"

\* lines 94-127: Generate, then GenerationFailed or Succeeded
RagGenerate ==
    /\ rpc = "generate"
    /\ llm_calls' = llm_calls + 1
    /\ \E provider \in ProviderOutcomes, ctor \in CtorFaults :
          LET call == ChatCompletionAsync(provider, ctor)
          IN /\ groq_client' = call.client
             /\ groq_async_client' = call.async
             /\ llm_result' = [kind |-> call.kind, cause |-> call.cause]
             /\ rpc' = GenerationExit(call.kind)
             /\ CASE call.kind = "ValueError" ->
                       outcome' = Some(ConfigIssueOutcome(sources))
                  [] call.kind = "RuntimeError" ->
                       outcome' = Some(UnavailableOutcome(sources))
                  [] call.kind = "ok" ->
                       \E conf \in Confidences(Val(search_results)) :
                          outcome' = Some(SucceededOutcome(sources, conf))
                  [] OTHER -> UNCHANGED outcome
    /\ UNCHANGED <<search_results, sources, search_calls, queries, search_fault>>
    /\ UNCHANGED <<chunkVars, settingsVars, storeVars>>
    /\ UNCHANGED <<ctorVars, apiVars>>
    /\ UNCHANGED backendVars

\* the next request: rag_query is called again, its locals start afresh
RagQueryAgain ==
    /\ rpc \in {"returned", "raised"}
    /\ queries < MaxQueries
    /\ queries' = queries + 1
    /\ rpc' = "start" /\ search_results' = None /\ sources' = <<>>
    /\ llm_result' = NoCall /\ outcome' = None /\ search_calls' = 0
    /\ llm_calls' = 0 /\ search_fault' = "none"
    /\ UNCHANGED <<chunkVars, settingsVars, storeVars, groqVars>>
    /\ UNCHANGED <<ctorVars, apiVars>>
    /\ UNCHANGED backendVars

RagNext == RagRetrieve \/ RagGenerate \/ RagQueryAgain

RagSpec == RagInit /\ [][RagNext]_vars


\* C5: a search that returns nothing ends the query at once with the fixed
\* not-found answer, no sources and confidence 0, and the generation
\* provider is not called
RagNoResultsEndsQuery ==
    search_results = Some(<<>>) =>
        /\ rpc = "returned"
        /\ outcome = Some([answer |-> "not_found", sources |-> <<>>, confidence |-> 0])
        /\ llm_calls = 0
        /\ llm_result = NoCall

RagNoResultsWitness ==
    /\ search_results = Some(<<>>) /\ rpc = "returned" /\ index # <<>>

\* C6: after a non-empty retrieval, an authentication / configuration
\* failure of the provider (a missing API key included) makes rag_query
\* return the configuration-issue answer with the collected sources and
\* confidence 0
RagConfigFailureHandled ==
    llm_result.cause \in {"missing_key", "AuthenticationError", "PermissionDeniedError"} =>
        /\ rpc = "returned"
        /\ search_results # None /\ Val(search_results) # <<>>
        /\ sources # <<>>
        /\ outcome = Some([answer |-> "config_issue", sources |-> sources, confidence |-> 0])

RagConfigFailureWitness ==
    /\ llm_result.cause = "AuthenticationError"
    /\ rpc = "returned" /\ Len(sources) = 2

\* C7: after a non-empty retrieval, a transient API failure of the provider
\* makes rag_query return the service-unavailable answer with the same
\* sources and confidence 0
RagTransientFailureHandled ==
    llm_result.cause = "APIError" =>
        /\ rpc = "returned"
        /\ search_results # None /\ Val(search_results) # <<>>
        /\ sources # <<>>
        /\ outcome = Some([answer |-> "service_unavailable", sources |-> sources, confidence |-> 0])

RagTransientFailureWitness ==
    /\ llm_result.cause = "APIError"
    /\ rpc = "returned" /\ Len(sources) = 2

\* C8: every outcome rag_query returns has its confidence in [0, 0.95]
RagConfidenceBounded ==
    outcome # None =>
        /\ 0 <= Val(outcome).confidence
        /\ Val(outcome).confidence <= 95

\* C9: after a non-empty retrieval the sources of the outcome hold no
\* element twice, each is the doc_id of a search result (its id when it has
\* no doc_id), and they stand in the order of first occurrence in the results
FirstAt(results, src) ==
    CHOOSE r \in 1..Len(results) :
        /\ SourceOf(results[r]) = src
        /\ \A q \in 1..(r - 1) : SourceOf(results[q]) # src

RagSourcesFirstSeen ==
    (outcome # None /\ search_results # None /\ Val(search_results) # <<>>) =>
        LET srcs == Val(outcome).sources
            results == Val(search_results)
        IN /\ \A i, j \in 1..Len(srcs) : i # j => srcs[i] # srcs[j]
           /\ \A i \in 1..Len(srcs) :
                 \E r \in 1..Len(results) :
                    \/ /\ results[r].metadata.doc_id # Absent
                       /\ srcs[i] = results[r].metadata.doc_id
                    \/ /\ results[r].metadata.doc_id = Absent
                       /\ srcs[i] = results[r].id
                       /\ \E e \in 1..Len(index) : ToString(index[e].id) = srcs[i]
           /\ \A i, j \in 1..Len(srcs) :
                 i < j => FirstAt(results, srcs[i]) < FirstAt(results, srcs[j])

RagSourcesWitness ==
    /\ outcome # None /\ search_results # None
    /\ Len(Val(search_results)) = 3
    /\ Len(Val(outcome).sources) = 2
    /\ \E r \in 1..3 : Val(search_results)[r].metadata.doc_id = Absent
    /\ Val(search_results)[1].metadata.doc_id = Val(search_results)[3].metadata.doc_id


\* ------------------------------------------------------------------------
\* VectorStore.add_documents and VectorStore.delete_document
\* ------------------------------------------------------------------------
MaxOps == 3

\* the size of the one page delete_document asks scroll for.  The source
\* passes limit=10000 (vectorstore.py line 227); the model keeps the same
\* single-page logic with a page small enough to be exceeded.
ScrollLimit == 2

\* a metadata dict: the keys "text" and "doc_id", each possibly absent
EmptyMeta == [text |-> Absent, doc_id |-> Absent]

\* `if doc_id:` -- None and "" are falsy
DocIdGiven(doc_id) == doc_id # None /\ Val(doc_id) # ""

\* the doc_id argument written only into the maps that have no doc_id yet
PrepareMetadatasSetDefault(texts, metadatas, doc_id) ==
    LET metas == IF metadatas = None
                 THEN [i \in 1..Len(texts) |-> EmptyMeta]
                 ELSE Val(metadatas)
    IN IF DocIdGiven(doc_id)
       THEN [i \in 1..Len(metas) |->
                IF metas[i].doc_id = Absent
                THEN [metas[i] EXCEPT !.doc_id = Val(doc_id)] ELSE metas[i]]
       ELSE metas

\* lines 84-90: the metadata list the points are built from
PrepareMetadatas(texts, metadatas, doc_id) ==
    LET metas == IF metadatas = None
                 THEN [i \in 1..Len(texts) |-> EmptyMeta]
                 ELSE Val(metadatas)
    IN IF DocIdGiven(doc_id)
       THEN [i \in 1..Len(metas) |-> [metas[i] EXCEPT !.doc_id = Val(doc_id)]]
       ELSE metas

\* lines 99-102: {"text": text, **metadata}
Payload(chunk, metadata) ==
    [text |-> IF metadata.text # Absent THEN metadata.text ELSE chunk,
     doc_id |-> metadata.doc_id]

\* ids derived from the position of the text in its batch
ChunkIdsByPosition(texts) == [i \in 1..Len(texts) |-> i]

\* lines 79-81: uuid4() once per text; the k-th value drawn is k, the values
\* of uuid4 being taken as pairwise distinct
ChunkIds(texts) == [i \in 1..Len(texts) |-> uuid_count + i]

\* score a new entry has against the query being asked
StoreScores == {Some(50)}

\* lines 93-104: zip stops at the shortest of its arguments
Points(texts, metadatas, doc_id, sc) ==
    LET metas == PrepareMetadatas(texts, metadatas, doc_id)
        ids == ChunkIds(texts)
    IN [i \in 1..Min(Len(texts), Len(metas)) |->
           [id |-> ids[i], payload |-> Payload(texts[i], metas[i]), score |-> sc]]

\* client.upsert: a point replaces the entry with its id, if there is one
Upsert(ix, points) ==
    LET new == {points[i].id : i \in 1..Len(points)}
    IN SelectSeq(ix, LAMBDA e : e.id \notin new) \o points

\* line 114
ReturnedIds(texts) == [i \in 1..Len(texts) |-> ToString(ChunkIds(texts)[i])]

TextBatches == {<<"t1">>, <<"t1", "t2", "t3">>}
DocIdArgs == {None, Some("d1"), Some("")}
MetadataArgs(texts) ==
    {None,
     Some([i \in 1..Len(texts) |-> [text |-> Absent, doc_id |-> "d2"]]),
     Some([i \in 1..Len(texts) |-> [text |-> "meta", doc_id |-> Absent]]),
     Some([i \in 1..(Len(texts) - 1) |-> EmptyMeta])}
DeleteArgs == {"d1", "d2"}

StoreInit ==
    /\ index = <<>> /\ uuid_count = 0 /\ backend_strict = TRUE /\ searchLog = <<>>
    /\ last_op = NoOp /\ ops = 0
    /\ SettingsDefault /\ ChunkIdle /\ GroqIdle /\ RagIdle
    /\ CtorIdle /\ ApiIdle
    /\ BackendIdle

\* lines 74-114: add_documents runs to its return
AddDocuments ==
    /\ ops < MaxOps
    /\ ops' = ops + 1
    /\ \E texts \in TextBatches, doc_id \in DocIdArgs, sc \in StoreScores :
       \E metadatas \in MetadataArgs(texts) :
          /\ index' = Upsert(index, Points(texts, metadatas, doc_id, sc))
          /\ uuid_count' = uuid_count + Len(texts)
          /\ last_op' = [op |-> "add_documents", doc_id |-> doc_id,
                         raised |-> FALSE, ids |-> ReturnedIds(texts),
                         texts |-> texts, metadatas |-> metadatas, deletes |-> 0, fault |-> "none"]
    /\ UNCHANGED <<backend_strict, searchLog>>
    /\ UNCHANGED <<chunkVars, settingsVars, groqVars, ragVars>>
    /\ UNCHANGED <<ctorVars, apiVars>>
    /\ UNCHANGED backendVars

\* lines 116-118: embed_documents (line 76) or upsert (line 107) raised;
\* an upsert that raises is taken to have written nothing
AddDocumentsRaises ==
    /\ ops < MaxOps
    /\ ops' = ops + 1
    /\ \E texts \in TextBatches, doc_id \in DocIdArgs, fault \in {"embed", "upsert"} :
          /\ uuid_count' = IF fault = "upsert" THEN uuid_count + Len(texts) ELSE uuid_count
          /\ last_op' = [op |-> "add_documents", doc_id |-> doc_id,
                         raised |-> TRUE, ids |-> <<>>,
                         texts |-> texts, metadatas |-> None, deletes |-> 0, fault |-> fault]
    /\ UNCHANGED <<index, backend_strict, searchLog>>
    /\ UNCHANGED <<chunkVars, settingsVars, groqVars, ragVars>>
    /\ UNCHANGED <<ctorVars, apiVars>>
    /\ UNCHANGED backendVars

\* lines 224-230: client.scroll(filter doc_id, limit): one page, the first
\* `limit` matching points in id order
ScrollPage(ix, doc_id, limit) ==
    LET matching == SelectSeq(ix, LAMBDA e : e.payload.doc_id = doc_id)
    IN SubSeq(matching, 1, Min(limit, Len(matching)))

\* a delete by the doc_id filter of the scan instead of by the ids it found
DeletePointsByFilter(ix, page) ==
    LET docs == {page[i].payload.doc_id : i \in 1..Len(page)}
    IN SelectSeq(ix, LAMBDA e : e.payload.doc_id \notin docs)

\* lines 232-237: the ids of the page, deleted in one call
DeletePoints(ix, page) ==
    LET point_ids == {page[i].id : i \in 1..Len(page)}
    IN SelectSeq(ix, LAMBDA e : e.id \notin point_ids)

\* a delete issued whatever the scan returned
DeleteIssuedAlways(page) == TRUE

\* line 232: `if scroll_result[0]:` -- client.delete is called only for a
\* page that holds points
DeleteIssued(page) == page # <<>>

\* lines 212-240: delete_document runs to its return, alone
DeleteDocument ==
    /\ ops < MaxOps
    /\ ops' = ops + 1
    /\ \E doc_id \in DeleteArgs :
          LET page == ScrollPage(index, doc_id, ScrollLimit)
          IN /\ index' = IF DeleteIssued(page) THEN DeletePoints(index, page) ELSE index
             /\ last_op' = [op |-> "delete_document", doc_id |-> Some(doc_id),
                            raised |-> FALSE, ids |-> <<>>,
                            texts |-> <<>>, metadatas |-> None,
                            deletes |-> IF DeleteIssued(page) THEN 1 ELSE 0,
                            fault |-> "none"]
    /\ UNCHANGED <<uuid_count, backend_strict, searchLog>>
    /\ UNCHANGED <<chunkVars, settingsVars, groqVars, ragVars>>
    /\ UNCHANGED <<ctorVars, apiVars>>
    /\ UNCHANGED backendVars

\* lines 242-244: client.scroll raised, or the client.delete that was
\* issued did; a delete that raises is taken to have removed nothing
DeleteDocumentRaises ==
    /\ ops < MaxOps
    /\ ops' = ops + 1
    /\ \E doc_id \in DeleteArgs, fault \in {"scroll", "delete"} :
          LET page == ScrollPage(index, doc_id, ScrollLimit)
          IN /\ fault = "delete" => DeleteIssued(page)
             /\ last_op' = [op |-> "delete_document", doc_id |-> Some(doc_id),
                            raised |-> TRUE, ids |-> <<>>,
                            texts |-> <<>>, metadatas |-> None,
                            deletes |-> IF fault = "delete" THEN 1 ELSE 0,
                            fault |-> fault]
    /\ UNCHANGED <<index, uuid_count, backend_strict, searchLog>>
    /\ UNCHANGED <<chunkVars, settingsVars, groqVars, ragVars>>
    /\ UNCHANGED <<ctorVars, apiVars>>
    /\ UNCHANGED backendVars

StoreNext == AddDocuments \/ AddDocumentsRaises \/ DeleteDocument \/ DeleteDocumentRaises

StoreSpec == StoreInit /\ [][StoreNext]_vars

\* C10: once delete_document(doc_id) has returned, no entry of the index
\* carries that doc_id
DeleteRemovesDocument ==
    (last_op.op = "delete_document" /\ ~last_op.raised) =>
        \A e \in 1..Len(index) : index[e].payload.doc_id # Val(last_op.doc_id)

\* a step in which add_documents returned
AddReturned == ops' = ops + 1 /\ last_op'.op = "add_documents" /\ ~last_op'.raised

\* C11: every id add_documents assigns is fresh: the ids of one call are
\* pairwise distinct and none is the id of an entry already in the index,
\* so every entry the index held before the call is still there unchanged
\* and the index grows by one entry per point written
AddAssignsFreshIds ==
    [][AddReturned =>
         LET n == Len(index)
             ids == last_op'.ids
             written == Min(Len(last_op'.texts),
                            IF last_op'.metadatas = None THEN Len(last_op'.texts)
                            ELSE Len(Val(last_op'.metadatas)))
         IN /\ \A i, j \in 1..Len(ids) : i # j => ids[i] # ids[j]
            /\ \A i \in 1..Len(ids), e \in 1..n : ids[i] # ToString(index[e].id)
            /\ Len(index') = n + written
            /\ \A e \in 1..n : index'[e] = index[e]
            /\ \A i, j \in 1..Len(index') : i # j => index'[i].id # index'[j].id]_vars

\* entries of two documents, one of them with several chunks, are in the
\* index together after a second add_documents call
AddAssignsFreshIdsWitness ==
    /\ last_op.op = "add_documents" /\ ~last_op.raised /\ ops >= 2
    /\ \E i, j, k \in 1..Len(index) :
          /\ i # j
          /\ index[i].payload.doc_id = "d1" /\ index[j].payload.doc_id = "d1"
          /\ index[k].payload.doc_id = "d2"
          /\ ToString(index[k].id) \in {last_op.ids[m] : m \in 1..Len(last_op.ids)}

\* C1: chunk_text terminates on every text, for every configuration with
\* chunk_overlap < chunk_size
ChunkTerminates == <>(cpc = "returned")

\* every character position lies in a slice some iteration took
Covered ==
    \A p \in 0..(Len(text) - 1) :
        \E k \in 1..Len(slices) : slices[k][1] <= p /\ p < slices[k][2]

\* C2: when chunk_text returns from its loop, the slices its iterations
\* took cover every character position of the text
ChunkCovers ==
    (cpc = "returned" /\ Len(text) > 0 /\ PyStrip(text) # <<>>) => Covered


\* ------------------------------------------------------------------------
\* TextChunker.__init__ (utils/chunker.py lines 15-27)
\* ------------------------------------------------------------------------
MaxCtorArg == 9

\* settings.MAX_CHUNK_SIZE and settings.CHUNK_OVERLAP
DefaultChunkSize == 1000
DefaultChunkOverlap == 200

\* lines 23-26: the two `or` defaults, then the overlap test
TextChunkerNew(size_arg, overlap_arg) ==
    LET cs == OrDefault(size_arg, DefaultChunkSize)
        co == OrDefault(overlap_arg, DefaultChunkOverlap)
    IN [chunk_size |-> cs, chunk_overlap |-> co, raised |-> co >= cs]

SizeArgs ==
    {None} \cup {Some(n) : n \in 0..MaxCtorArg} \cup {Some(100), Some(DefaultChunkSize)}
OverlapArgs ==
    {None} \cup {Some(n) : n \in -1..MaxCtorArg} \cup {Some(DefaultChunkOverlap)}

\* no chunker yet
CtorInit ==
    /\ text = <<>> /\ chunk_size = 1 /\ chunk_overlap = 0 /\ start = 0 /\ end = 0
    /\ chunks = <<>> /\ slices = <<>> /\ iters = 0 /\ cpc = "new"
    /\ ctor_call = DefaultCtorCall
    /\ SettingsDefault /\ StoreIdle /\ GroqIdle /\ RagIdle /\ ApiIdle
    /\ BackendIdle

\* TextChunker(chunk_size, chunk_overlap): the object exists only when the
\* constructor returns
Construct ==
    /\ cpc = "new"
    /\ \E size_arg \in SizeArgs, overlap_arg \in OverlapArgs :
          LET made == TextChunkerNew(size_arg, overlap_arg)
          IN /\ ctor_call' = [chunk_size |-> size_arg, chunk_overlap |-> overlap_arg,
                              raised |-> made.raised]
             /\ IF made.raised
                THEN /\ cpc' = "config_error"
                     /\ UNCHANGED <<chunk_size, chunk_overlap>>
                ELSE /\ cpc' = "constructed"
                     /\ chunk_size' = made.chunk_size
                     /\ chunk_overlap' = made.chunk_overlap
    /\ UNCHANGED <<text, start, end, chunks, slices, iters>>
    /\ UNCHANGED <<settingsVars, storeVars, groqVars, ragVars, apiVars>>
    /\ UNCHANGED backendVars

CtorSpec == CtorInit /\ [][Construct]_vars

\* C12: with both arguments supplied, the constructor fails exactly when
\* overlap >= maxLen, and a pair with 0 <= overlap < maxLen gives a chunker
\* that uses exactly the two values supplied
CtorAcceptsExactly ==
    (cpc \in {"constructed", "config_error"}
        /\ ctor_call.chunk_size # None /\ ctor_call.chunk_overlap # None) =>
        LET maxLen == Val(ctor_call.chunk_size)
            overlap == Val(ctor_call.chunk_overlap)
        IN /\ ctor_call.raised <=> overlap >= maxLen
           /\ (0 <= overlap /\ overlap < maxLen) =>
                 (cpc = "constructed" /\ chunk_size = maxLen /\ chunk_overlap = overlap)

\* ------------------------------------------------------------------------
\* chunk_text on texts without boundary markers and without whitespace
\* ------------------------------------------------------------------------
MaxPlainLen == 12

PlainText(n) == [i \in 1..n |-> "a"]
ScenarioText == PlainText(250)
ScenarioConfig == <<100, 20>>

PlainInit ==
    /\ text \in {PlainText(n) : n \in 1..MaxPlainLen} \cup {ScenarioText}
    /\ \E cfg \in Configs \cup {ScenarioConfig} :
          chunk_size = cfg[1] /\ chunk_overlap = cfg[2]
    /\ start = 0 /\ end = 0 /\ chunks = <<>> /\ slices = <<>> /\ iters = 0
    /\ cpc = "call"
    /\ SettingsDefault /\ StoreIdle /\ GroqIdle /\ RagIdle
    /\ CtorIdle /\ ApiIdle
    /\ BackendIdle

PlainSpec == PlainInit /\ [][ChunkNext]_vars

IsPlain(t) == \A i \in 1..Len(t) : ~IsSpace(t[i]) /\ t[i] \notin {".", "!", "?"}

CeilDiv(a, b) == (a + b - 1) \div b

\* C13: on a text longer than maxLen with no marker and no whitespace the
\* slices start exactly maxLen - overlap apart, consecutive slices share
\* overlap characters, none lies wholly inside its predecessor, and there
\* are ceil((L - overlap) / (maxLen - overlap)) chunks
PlainChunkCount ==
    (cpc = "returned" /\ IsPlain(text) /\ Len(text) > chunk_size) =>
        LET step == chunk_size - chunk_overlap
        IN /\ Len(chunks) = CeilDiv(Len(text) - chunk_overlap, step)
           /\ Len(slices) = Len(chunks)
           /\ \A k \in 1..Len(slices) :
                 /\ slices[k][1] = (k - 1) * step
                 /\ Len(chunks[k]) <= chunk_size
           /\ \A k \in 2..Len(slices) :
                 /\ slices[k - 1][2] - slices[k][1] = chunk_overlap
                 /\ slices[k][2] > slices[k - 1][2]


\* C14: every chunk chunk_text has appended holds a character that is not
\* whitespace and is at most chunk_size characters long
ChunksNonEmptyBounded ==
    \A k \in 1..Len(chunks) :
        /\ \E p \in 1..Len(chunks[k]) : ~IsSpace(chunks[k][p])
        /\ Len(chunks[k]) <= chunk_size

\* chunk_text returned after dropping a whitespace-only slice and keeping a
\* chunk of the full length
ChunksNonEmptyBoundedWitness ==
    /\ cpc = "returned"
    /\ Len(slices) > Len(chunks)
    /\ \E k \in 1..Len(chunks) : Len(chunks[k]) = chunk_size


\* the 0-based positions at which marker m occurs wholly inside [lo, hi)
Occurrences(m, lo, hi) ==
    {p \in Max(lo, 0)..(Min(hi, Len(text)) - Len(break_chars[m])) :
        \A k \in 1..Len(break_chars[m]) : text[p + k] = break_chars[m][k]}

\* the end the boundary rule gives the chunk starting at lo
BoundaryEnd(lo, hi) ==
    LET present == {m \in 1..Len(break_chars) : Occurrences(m, lo, hi) # {}}
    IN IF present = {} THEN hi
       ELSE LET first == CHOOSE m \in present : \A n \in present : m <= n
                last == CHOOSE p \in Occurrences(first, lo, hi) :
                           \A q \in Occurrences(first, lo, hi) : q <= p
            IN last + Len(break_chars[first])

\* C15: in an iteration whose hard cut start + chunk_size lies before the
\* end of the text, the chunk ends just after the last occurrence, inside
\* [start, start + chunk_size), of the first marker in preference order
\* that occurs there, and at the hard cut when no marker occurs there
ChunkEndAtBoundary ==
    (cpc = "advance" /\ start + chunk_size < Len(text)) =>
        end = BoundaryEnd(start, start + chunk_size)

\* the same rule in the iterations that start inside the text
ChunkEndAtBoundaryFromInside ==
    (cpc = "advance" /\ start >= 0 /\ start + chunk_size < Len(text)) =>
        end = BoundaryEnd(start, start + chunk_size)


\* C16: rag_query raises exactly when vector_store.search failed or the
\* generation call ended in a failure that is neither the authentication /
\* configuration one nor the transient one; after a failed search the
\* provider has not been called, and a query that raised has no outcome
RagRaisesExactly ==
    /\ rpc = "raised" <=>
          \/ search_fault # "none"
          \/ llm_result.kind \notin {"none", "ok", "ValueError", "RuntimeError"}
    /\ search_fault # "none" => (llm_calls = 0 /\ llm_result = NoCall)
    /\ rpc = "raised" => outcome = None
    /\ llm_result.cause \in {"OtherError", "constructor", "no_async_client"} =>
          rpc = "raised"

\* the query embedding failed: rag_query raised before any provider call
RagRaisesExactlyWitness ==
    /\ rpc = "raised" /\ search_fault = "embed" /\ llm_calls = 0 /\ index # <<>>

\* C17: one rag_query runs Retrieve, then NoResults or Generate, then
\* GenerationFailed or Succeeded: search is called once and before the
\* provider, the provider at most once, and a query that has ended raised or
\* returned the one outcome of the path it took
RagStateMachine ==
    /\ search_calls <= 1 /\ llm_calls <= 1
    /\ rpc = "start" => (search_calls = 0 /\ llm_calls = 0 /\ outcome = None)
    /\ llm_calls = 1 =>
          (search_calls = 1 /\ search_results # None /\ Val(search_results) # <<>>)
    /\ rpc = "generate" => (search_calls = 1 /\ llm_calls = 0 /\ outcome = None)
    /\ rpc = "raised" => (search_calls = 1 /\ outcome = None)
    /\ rpc = "returned" =>
          /\ search_calls = 1 /\ outcome # None
          /\ \/ /\ search_results = Some(<<>>) /\ llm_calls = 0
                /\ Val(outcome).answer = "not_found"
             \/ /\ llm_calls = 1 /\ llm_result.kind = "ValueError"
                /\ Val(outcome).answer = "config_issue"
             \/ /\ llm_calls = 1 /\ llm_result.kind = "RuntimeError"
                /\ Val(outcome).answer = "service_unavailable"
             \/ /\ llm_calls = 1 /\ llm_result.kind = "ok"
                /\ Val(outcome).answer = "generated"

\* a second query ended in GenerationFailed after one provider call
RagStateMachineWitness ==
    /\ queries = 2 /\ rpc = "returned" /\ llm_calls = 1 /\ search_calls = 1
    /\ llm_result.kind = "RuntimeError"


\* ------------------------------------------------------------------------
\* POST /admin/embed: embed_document (api/admin.py lines 66-140)
\* ------------------------------------------------------------------------
MaxIngestLen == 4

\* settings.SUPPORTED_FILE_TYPES
SupportedFileTypes == {".pdf", ".txt", ".csv"}

\* `not text or not text.strip()`
EmptyText(t) == Len(t) = 0 \/ PyStrip(t) = <<>>

\* a handler without the `except HTTPException: raise` clause
EmbedStatusNoReraise(exc) == IF exc = "none" THEN 200 ELSE 500

\* lines 131-140: the status of the response, from what left the try block
EmbedStatus(exc) ==
    CASE exc = "none" -> 200
      [] exc = "HTTPException(400)" -> 400
      [] OTHER -> 500

\* the index holds one entry of an earlier document
IngestBaseIndex == BuildIndex(<<[doc |-> "d1", score |-> Some(50)]>>)

\* the request has arrived; the text is what extraction gives for the file
\* when it succeeds
IngestInit ==
    /\ hpc = "received"
    /\ \E ext \in SupportedFileTypes \cup {".exe"}, ok \in BOOLEAN :
          upload = [ext |-> ext, extracted |-> ok, doc_id |-> None]
    /\ text \in SeqsUpTo(Alphabet, MaxIngestLen)
    /\ \E cfg \in Configs : chunk_size = cfg[1] /\ chunk_overlap = cfg[2]
    /\ start = 0 /\ end = 0 /\ chunks = <<>> /\ slices = <<>> /\ iters = 0
    /\ cpc = "returned"
    /\ index = IngestBaseIndex /\ uuid_count = 1 /\ backend_strict = TRUE
    /\ searchLog = <<>> /\ last_op = NoOp /\ ops = 0
    /\ query = <<>> /\ http_status = 0 /\ add_calls = 0
    /\ SettingsDefault /\ GroqIdle /\ RagIdle /\ CtorIdle
    /\ BackendIdle

\* lines 77-106: the file type, the extraction, the empty-text test, the
\* document id, and the call of chunk_text
EmbedValidate ==
    /\ hpc = "received"
    /\ IF upload.ext \notin SupportedFileTypes
       THEN /\ hpc' = "responded" /\ http_status' = EmbedStatus("HTTPException(400)")
            /\ UNCHANGED <<upload, uuid_count, cpc>>
       ELSE IF ~upload.extracted
       THEN /\ hpc' = "responded" /\ http_status' = EmbedStatus("Exception")
            /\ UNCHANGED <<upload, uuid_count, cpc>>
       ELSE IF EmptyText(text)
       THEN /\ hpc' = "responded" /\ http_status' = EmbedStatus("HTTPException(400)")
            /\ UNCHANGED <<upload, uuid_count, cpc>>
       ELSE /\ hpc' = "chunking" /\ cpc' = "call"
            /\ uuid_count' = uuid_count + 1
            /\ upload' = [upload EXCEPT !.doc_id = Some(ToString(uuid_count + 1))]
            /\ UNCHANGED http_status
    /\ UNCHANGED <<text, chunk_size, chunk_overlap, start, end, chunks, slices, iters>>
    /\ UNCHANGED <<index, backend_strict, searchLog, last_op, ops>>
    /\ UNCHANGED <<query, add_calls>>
    /\ UNCHANGED <<settingsVars, groqVars, ragVars, ctorVars>>
    /\ UNCHANGED backendVars

\* lines 112-120
EmbedMetadatas(n, doc_id) == [i \in 1..n |-> [text |-> Absent, doc_id |-> doc_id]]

\* lines 108-134: chunk_text has returned; the no-chunk test, add_documents
\* and the response
EmbedStore ==
    /\ hpc = "chunking" /\ cpc = "returned"
    /\ hpc' = "responded"
    /\ IF chunks = <<>>
       THEN /\ http_status' = EmbedStatus("HTTPException(400)")
            /\ UNCHANGED <<index, uuid_count, last_op, add_calls>>
       ELSE /\ add_calls' = add_calls + 1
            /\ \E fault \in {"none", "embed", "upsert"}, sc \in StoreScores :
                  LET doc_id == upload.doc_id
                      metadatas == Some(EmbedMetadatas(Len(chunks), Val(doc_id)))
                  IN IF fault = "none"
                     THEN /\ index' = Upsert(index, Points(chunks, metadatas, doc_id, sc))
                          /\ uuid_count' = uuid_count + Len(chunks)
                          /\ last_op' = [op |-> "add_documents", doc_id |-> doc_id,
                                         raised |-> FALSE, ids |-> ReturnedIds(chunks),
                                         texts |-> chunks, metadatas |-> metadatas, deletes |-> 0, fault |-> "none"]
                          /\ http_status' = EmbedStatus("none")
                     ELSE /\ uuid_count' = IF fault = "upsert"
                                           THEN uuid_count + Len(chunks) ELSE uuid_count
                          /\ last_op' = [op |-> "add_documents", doc_id |-> doc_id,
                                         raised |-> TRUE, ids |-> <<>>,
                                         texts |-> chunks, metadatas |-> None, deletes |-> 0, fault |-> fault]
                          /\ http_status' = EmbedStatus("Exception")
                          /\ UNCHANGED index
    /\ UNCHANGED <<backend_strict, searchLog, ops>>
    /\ UNCHANGED <<upload, query>>
    /\ UNCHANGED <<chunkVars, settingsVars, groqVars, ragVars, ctorVars>>
    /\ UNCHANGED backendVars

IngestNext ==
    EmbedValidate \/ ChunkTextEnter \/ ChunkTextSlice \/ ChunkTextAdvance \/ EmbedStore

IngestSpec == IngestInit /\ [][IngestNext]_vars

\* C18: an upload whose extracted text is empty or whitespace-only, or from
\* which chunk_text returned no chunk, is answered with status 400, and
\* add_documents has not been called and the index is as it was
IngestRejectsEmpty ==
    /\ (upload.ext \in SupportedFileTypes /\ upload.extracted /\ EmptyText(text)) =>
          /\ add_calls = 0 /\ index = IngestBaseIndex
          /\ hpc = "responded" => http_status = 400
    /\ (hpc = "responded" /\ upload.doc_id # None /\ chunks = <<>>) =>
          /\ add_calls = 0 /\ index = IngestBaseIndex
          /\ http_status = 400

\* a whitespace-only text file has been answered
IngestRejectsEmptyWitness ==
    /\ hpc = "responded" /\ upload.ext = ".txt" /\ upload.extracted
    /\ Len(text) > 0 /\ PyStrip(text) = <<>>
    /\ http_status = 400 /\ add_calls = 0


\* ------------------------------------------------------------------------
\* POST /rag/query: query_rag (api/rag.py lines 29-53)
\* ------------------------------------------------------------------------
MaxQueryLen == 2

\* lines 49-53: the status of the response, from what left the try block;
\* the one clause `except Exception` also catches the HTTPException raised
\* inside the block
QueryStatus(exc) == IF exc = "none" THEN 200 ELSE 500

QueryInit ==
    /\ hpc = "received"
    /\ query \in SeqsUpTo({"a", " "}, MaxQueryLen)
    /\ \E ix \in IndexesOf(RagDocs, RagScores, 1) :
          /\ index = BuildIndex(ix)
          /\ uuid_count = Len(ix)
    /\ backend_strict \in BOOLEAN
    /\ searchLog = <<>> /\ last_op = NoOp /\ ops = 0
    /\ RAG_TOP_K = DefaultTopK
    /\ RAG_MIN_SCORE \in MinScoreSettings
    /\ GROQ_API_KEY \in {"", "key"}
    /\ upload = NoUpload /\ http_status = 0 /\ add_calls = 0
    /\ GroqIdle /\ RagIdle /\ ChunkIdle /\ CtorIdle
    /\ BackendIdle

\* lines 40-47: the empty-query test, then the call of rag_query
QueryValidate ==
    /\ hpc = "received"
    /\ IF EmptyText(query)
       THEN /\ hpc' = "responded"
            /\ http_status' = QueryStatus("HTTPException(400)")
            /\ UNCHANGED <<rpc, queries>>
       ELSE /\ hpc' = "querying"
            /\ rpc' = "start" /\ queries' = queries + 1
            /\ UNCHANGED http_status
    /\ UNCHANGED <<search_results, sources, llm_result, outcome, search_calls,
                   llm_calls, search_fault>>
    /\ UNCHANGED <<upload, query, add_calls>>
    /\ UNCHANGED <<chunkVars, settingsVars, storeVars, groqVars, ctorVars>>
    /\ UNCHANGED backendVars

\* lines 49-53: rag_query has returned or raised
QueryRespond ==
    /\ hpc = "querying" /\ rpc \in {"returned", "raised"}
    /\ hpc' = "responded"
    /\ http_status' = QueryStatus(IF rpc = "raised" THEN "Exception" ELSE "none")
    /\ UNCHANGED <<upload, query, add_calls>>
    /\ UNCHANGED <<chunkVars, settingsVars, storeVars, groqVars, ragVars, ctorVars>>
    /\ UNCHANGED backendVars

QueryNext == QueryValidate \/ RagRetrieve \/ RagGenerate \/ QueryRespond

QuerySpec == QueryInit /\ [][QueryNext]_vars

\* C19: an empty or whitespace-only query is answered with the client-error
\* status 400, not the 500 of a pipeline failure, and rag_query, search and
\* the generation provider are not called for it
QueryRejectsEmpty ==
    EmptyText(query) =>
        /\ queries = 0 /\ search_calls = 0 /\ llm_calls = 0
        /\ hpc = "responded" => http_status = 400

\* the pipeline is not called for an empty or whitespace-only query
QuerySkipsPipelineOnEmpty ==
    EmptyText(query) => (queries = 0 /\ search_calls = 0 /\ llm_calls = 0)


\* the entries of the index that the last add_documents call wrote
WrittenByLastAdd ==
    {e \in 1..Len(index) :
        ToString(index[e].id) \in {last_op.ids[i] : i \in 1..Len(last_op.ids)}}

DeleteAbsentIsNoOp ==
    [][(/\ ops' = ops + 1
        /\ last_op'.op = "delete_document"
        /\ last_op'.fault # "scroll"
        /\ \A e \in 1..Len(index) : index[e].payload.doc_id # Val(last_op'.doc_id))
         => (~last_op'.raised /\ last_op'.deletes = 0 /\ index' = index)]_vars

\* delete_document returned for a doc_id that has no entry, with entries of
\* another document in the index
DeleteAbsentIsNoOpWitness ==
    /\ last_op.op = "delete_document" /\ ~last_op.raised /\ last_op.deletes = 0
    /\ last_op.doc_id = Some("d2")
    /\ Len(index) >= 3
    /\ \A e \in 1..Len(index) : index[e].payload.doc_id = "d1"


\* ------------------------------------------------------------------------
\* delete_document running beside add_documents calls: the scroll and the
\* delete are two backend calls, and an upsert may land between them
\* ------------------------------------------------------------------------
MaxRaceEntries == 1

\* the document being deleted while it is uploaded again
RaceDocId == "d1"

RaceInit ==
    /\ \E k \in 0..MaxRaceEntries :
          /\ index = BuildIndex([i \in 1..k |-> [doc |-> RaceDocId, score |-> Some(50)]])
          /\ uuid_count = k
    /\ backend_strict = TRUE /\ searchLog = <<>> /\ last_op = NoOp /\ ops = 0
    /\ dpc = "idle" /\ scroll_result = <<>> /\ collection = CosineCollection
    /\ create_calls = 0
    /\ SettingsDefault /\ ChunkIdle /\ GroqIdle /\ RagIdle /\ CtorIdle /\ ApiIdle

\* lines 212-230: the scan, or its failure (lines 242-244)
RaceScroll ==
    /\ dpc = "idle"
    /\ \E fault \in {"none", "scroll"} :
          IF fault = "none"
          THEN /\ scroll_result' = ScrollPage(index, RaceDocId, ScrollLimit)
               /\ dpc' = "scanned"
          ELSE /\ dpc' = "raised"
               /\ UNCHANGED scroll_result
    /\ UNCHANGED <<collection, create_calls>>
    /\ UNCHANGED <<chunkVars, settingsVars, storeVars, groqVars, ragVars, ctorVars, apiVars>>

\* lines 232-240: the delete of the ids the scan found, or its failure
RaceDelete ==
    /\ dpc = "scanned"
    /\ \E fault \in {"none", "delete"} :
          /\ fault = "delete" => DeleteIssued(scroll_result)
          /\ IF fault = "none"
             THEN /\ index' = IF DeleteIssued(scroll_result)
                              THEN DeletePoints(index, scroll_result) ELSE index
                  /\ dpc' = "returned"
             ELSE /\ dpc' = "raised"
                  /\ UNCHANGED index
    /\ UNCHANGED <<uuid_count, backend_strict, searchLog, last_op, ops>>
    /\ UNCHANGED <<scroll_result, collection, create_calls>>
    /\ UNCHANGED <<chunkVars, settingsVars, groqVars, ragVars, ctorVars, apiVars>>

RaceNext == RaceScroll \/ RaceDelete \/ AddDocuments \/ AddDocumentsRaises

RaceSpec == RaceInit /\ [][RaceNext]_vars

ScannedIds == {scroll_result[i].id : i \in 1..Len(scroll_result)}

\* C24: the delete of delete_document removes the entries its scan found
\* and no other: every entry written between the scan and the delete is
\* still in the index when delete_document has returned
RaceDeleteRemovesScanned ==
    [][(dpc = "scanned" /\ dpc' = "returned") =>
          /\ \A e \in 1..Len(index') : index'[e].id \notin ScannedIds
          /\ \A e \in 1..Len(index) :
                index[e].id \notin ScannedIds =>
                   \E f \in 1..Len(index') : index'[f] = index[e]]_vars

\* both calls have returned and entries of the document remain: the scan
\* saw every entry the document had then, and the upsert came after it
RaceEntriesRemain ==
    /\ dpc = "returned"
    /\ last_op.op = "add_documents" /\ ~last_op.raised
    /\ last_op.doc_id = Some(RaceDocId)
    /\ scroll_result # <<>> /\ Len(scroll_result) < ScrollLimit
    /\ \E e \in 1..Len(index) : index[e].payload.doc_id = RaceDocId

\* both calls have returned and no entry of the document remains: the
\* upsert came before the scan
RaceNoneRemain ==
    /\ dpc = "returned"
    /\ last_op.op = "add_documents" /\ ~last_op.raised
    /\ last_op.doc_id = Some(RaceDocId)
    /\ \A i \in 1..Len(last_op.ids) :
          \E k \in 1..Len(scroll_result) : ToString(scroll_result[k].id) = last_op.ids[i]
    /\ \A e \in 1..Len(index) : index[e].payload.doc_id # RaceDocId


\* ------------------------------------------------------------------------
\* VectorStore.__init__ (core/vectorstore.py lines 21-55)
\* ------------------------------------------------------------------------
MaxInits == 3

\* the collections of the configured name the backend may already hold
ExistingCollections ==
    [exists : {TRUE}, size : {EmbeddingDim, 2 * EmbeddingDim},
     distance : {"Cosine", "Dot", "Euclid"}]

\* the backend before the first VectorStore() of the process
SetupInit ==
    /\ collection \in {NoCollection} \cup ExistingCollections
    /\ \E ix \in IndexesOf({"d1"}, {Some(50)}, 2) :
          /\ index = BuildIndex(ix)
          /\ uuid_count = Len(ix)
          /\ ~collection.exists => ix = <<>>
    /\ create_calls = 0 /\ dpc = "idle" /\ scroll_result = <<>>
    /\ backend_strict = TRUE /\ searchLog = <<>> /\ last_op = NoOp /\ ops = 0
    /\ SettingsDefault /\ ChunkIdle /\ GroqIdle /\ RagIdle /\ CtorIdle /\ ApiIdle

\* a create_collection issued whatever get_collections listed
CreateNeededAlways(coll) == TRUE

\* line 39: `if self.collection_name not in collection_names:`
CreateNeeded(coll) == ~coll.exists

\* lines 23-55: one VectorStore(): get_collections, then create_collection
\* when the name is not listed; either call may raise
VectorStoreNew ==
    /\ ops < MaxInits
    /\ ops' = ops + 1
    /\ \E fault \in {"none", "get_collections", "create_collection"} :
          /\ fault = "create_collection" => CreateNeeded(collection)
          /\ last_op' = [NoOp EXCEPT !.op = "__init__", !.raised = (fault # "none"),
                                     !.fault = fault]
          /\ IF fault # "get_collections" /\ CreateNeeded(collection)
             THEN /\ create_calls' = create_calls + 1
                  /\ IF fault = "none"
                     THEN collection' = CosineCollection /\ index' = <<>>
                     ELSE UNCHANGED <<collection, index>>
             ELSE UNCHANGED <<create_calls, collection, index>>
    /\ UNCHANGED <<uuid_count, backend_strict, searchLog, dpc, scroll_result>>
    /\ UNCHANGED <<chunkVars, settingsVars, groqVars, ragVars, ctorVars, apiVars>>

SetupSpec == SetupInit /\ [][VectorStoreNew]_vars

\* C25: a VectorStore() that returns with the collection absent issues one
\* create_collection, of cosine distance and the embedding dimension; one
\* that finds the collection issues none and leaves its dimension, its
\* metric and its entries as they were
SetupIdempotent ==
    [][(ops' = ops + 1 /\ last_op'.op = "__init__") =>
          /\ (~collection.exists /\ ~last_op'.raised) =>
                (create_calls' = create_calls + 1 /\ collection' = CosineCollection)
          /\ collection.exists =>
                /\ create_calls' = create_calls
                /\ collection' = collection /\ index' = index
                /\ last_op'.fault # "create_collection"]_vars

\* the third VectorStore() in a row returned and found the collection that
\* an earlier one had created
SetupIdempotentWitness ==
    /\ ops = 3 /\ ~last_op.raised /\ last_op.op = "__init__"
    /\ create_calls = 1 /\ collection = CosineCollection


\* C26: the start with which chunk_text enters its next loop iteration is
\* not negative and lies strictly after the start of the iteration before
ChunkMakesProgress ==
    [][(cpc = "advance" /\ cpc' = "loop") => (start' >= 0 /\ start' > start)]_vars


\* C27: the ids a successful add_documents returned are as many as its
\* texts and are exactly the ids of the entries the call wrote
AddReturnsWrittenIds ==
    (last_op.op = "add_documents" /\ ~last_op.raised) =>
        /\ Len(last_op.ids) = Len(last_op.texts)
        /\ \A i \in 1..Len(last_op.ids) :
              \E e \in 1..Len(index) : ToString(index[e].id) = last_op.ids[i]

\* C28: the entry add_documents wrote for its i-th text holds that text
\* under the payload key "text", and a search that returns the entry gives
\* that text
AddStoresChunkText ==
    (last_op.op = "add_documents" /\ ~last_op.raised) =>
        \A i \in 1..Len(last_op.ids), e \in 1..Len(index) :
            ToString(index[e].id) = last_op.ids[i] =>
                /\ index[e].payload.text = last_op.texts[i]
                /\ FormatPoint(index[e]).text = last_op.texts[i]

\* the same for the calls whose metadata maps hold no "text" key
AddStoresChunkTextPlainMeta ==
    (/\ last_op.op = "add_documents" /\ ~last_op.raised
     /\ last_op.metadatas # None
        => \A k \in 1..Len(Val(last_op.metadatas)) :
              Val(last_op.metadatas)[k].text = Absent) =>
        \A i \in 1..Len(last_op.ids), e \in 1..Len(index) :
            ToString(index[e].id) = last_op.ids[i] =>
                index[e].payload.text = last_op.texts[i]

\* C29: the sync and the async Groq client are both set or both unset, and
\* no access of async_client has returned None
GroqClientsPaired ==
    /\ (groq_client = "None") <=> (groq_async_client = "None")
    /\ llm_result.cause # "no_async_client"
====
